---- MODULE Spec2Model ----
(***************************************************************************)
(* Model of the functional-utilities library: the sequence utilities       *)
(* (range, zip, pairs, cyclic_pairs, cycle, at, find_from) and the mapping *)
(* reshape utilities (typed_entries, typed_from_entries, map_entries,      *)
(* map_keys, map_values, cover, nullableobj_to_partial), has_property,     *)
(* init_array, unthrow, fold, apply, final_join, index_by, divmod, the     *)
(* earlier versions of range and zip, and the stateful utilities (cached,  *)
(* ensure_delete_from_set, object_assign_if_truthy).  Every library        *)
(* function is an operator computed the way the code computes it; the      *)
(* state machine is a caller that invokes the functions on bounded inputs  *)
(* and records the call and its result.                                    *)
(***************************************************************************)
EXTENDS Integers, Sequences, FiniteSets, TLC

\* ------------------------------------------------------------------ bounds
MaxLen == 3      \* longest sequence passed to a sequence utility
MaxLists == 3    \* most sequences passed to zip in one call
MaxInt == 4      \* range arguments are drawn from -MaxInt..MaxInt
MaxIdx == 7      \* indices and rotation amounts are drawn from -MaxIdx..MaxIdx
MaxKeys == 2     \* most entries of a mapping passed to cover
MaxSet == 3      \* most members of a Set passed to ensure_delete_from_set
MaxDims == 3     \* most dimensions passed to init_array
MaxDim == 2      \* largest dimension passed to init_array
MaxHeapLen == 2  \* longest array the caller creates in its memory of arrays
MaxRefs == 2     \* most arrays the caller puts into the list it hands to zip
MaxRot == 2      \* indices and rotations on these arrays are in -MaxRot..MaxRot
MaxComputations == 2  \* most computations started for one key of the memo

\* ------------------------------------------------------- JavaScript values
\* A JavaScript value: a number, undefined, a text, a built-in function or an
\* array of values.  An array that is itself an argument is a TLA+ sequence
\* of values; an array that is an element of another array is Arr(items).
Num(n) == [kind |-> "number", num |-> n, str |-> "", items |-> <<>>]
Str(s) == [kind |-> "string", num |-> 0, str |-> s, items |-> <<>>]
Arr(s) == [kind |-> "array", num |-> 0, str |-> "", items |-> s]
Builtin(name) == [kind |-> "function", num |-> 0, str |-> name, items |-> <<>>]
Undefined == [kind |-> "undefined", num |-> 0, str |-> "", items |-> <<>>]
Null == [kind |-> "null", num |-> 0, str |-> "", items |-> <<>>]
Bool(b) == [kind |-> "boolean", num |-> IF b THEN 1 ELSE 0, str |-> "", items |-> <<>>]
\* An object as a value: its prototype and its own properties, each a pair
\* Arr(<<Str(key), value>>), in property order.
Obj(proto, props) == [kind |-> "object", num |-> 0, str |-> proto, items |-> props]
Prop(key, value) == Arr(<<Str(key), value>>)

Scalars == {Num(1), Num(2)}
Vals == Scalars \cup {Arr(<<>>), Arr(<<Num(2), Num(1)>>)}

RECURSIVE SeqsUpTo(_, _)
SeqsUpTo(S, n) ==
    IF n = 0 THEN {<<>>}
    ELSE LET shorter == SeqsUpTo(S, n - 1)
         IN  shorter \cup {Append(s, x) : s \in {t \in shorter : Len(t) = n - 1}, x \in S}

Min2(a, b) == IF a < b THEN a ELSE b
Max2(a, b) == IF a > b THEN a ELSE b
Abs(a) == IF a < 0 THEN -a ELSE a

\* The % operator of JavaScript for a non-zero b: the remainder of the
\* magnitudes, with the sign of the dividend.
JsRem(a, b) == IF a >= 0 THEN a % Abs(b) ELSE -((-a) % Abs(b))

\* Array.prototype.slice(start, end): negative arguments count from the end.
slice(arr, start, end) ==
    LET len == Len(arr)
        k == IF start < 0 THEN Max2(len + start, 0) ELSE Min2(start, len)
        final == IF end < 0 THEN Max2(len + end, 0) ELSE Min2(end, len)
    IN  SubSeq(arr, k + 1, final)

\* Array.prototype.slice(start): end defaults to the length.
slice_from(arr, start) == slice(arr, start, Len(arr))

\* Array.prototype.concat(item): an array argument is spread, any other
\* value is appended as one element.
concat(arr, item) ==
    IF item.kind = "array" THEN arr \o item.items ELSE Append(arr, item)

\* ------------------------------------------------------------------- range
RECURSIVE range_desc(_, _, _)
range_desc(i, end, result) ==
    IF i > end THEN range_desc(i - 1, end, Append(result, Num(i))) ELSE result

RECURSIVE range_asc(_, _, _)
range_asc(i, end, result) ==
    IF i < end THEN range_asc(i + 1, end, Append(result, Num(i))) ELSE result

range_no_desc(arg1, arg2) ==
    LET start == IF arg2.kind # "undefined" THEN arg1 ELSE 0
        end == IF arg2.kind # "undefined" THEN arg2.num ELSE arg1
    IN  range_asc(start, end, <<>>)

\* range(arg1, arg2): arg1 is an integer, arg2 a number value or Undefined.
range(arg1, arg2) ==
    LET start == IF arg2.kind # "undefined" THEN arg1 ELSE 0
        end == IF arg2.kind # "undefined" THEN arg2.num ELSE arg1
    IN  IF end < start THEN range_desc(start, end, <<>>)
        ELSE range_asc(start, end, <<>>)

\* --------------------------------------------------------------------- zip
\* lst[i] with a 0-based index: reading outside the array gives undefined.
elem(lst, i) == IF i >= 0 /\ i < Len(lst) THEN lst[i + 1] ELSE Undefined

\* The loop of zip that finds the shortest length, from list i on.
RECURSIVE zip_minLength(_, _, _)
zip_minLength(lsts, i, minLength) ==
    IF i < Len(lsts)
    THEN zip_minLength(lsts, i + 1,
                       IF Len(lsts[i + 1]) < minLength THEN Len(lsts[i + 1])
                       ELSE minLength)
    ELSE minLength

\* The loop of zip that pushes lsts.map((lst) => lst[i]) for each i.
RECURSIVE zip_rows(_, _, _, _)
zip_rows(lsts, i, minLength, result) ==
    IF i < minLength
    THEN zip_rows(lsts, i + 1, minLength,
                  Append(result, [j \in 1..Len(lsts) |-> elem(lsts[j], i)]))
    ELSE result

zip_first_length(lsts) ==
    IF Len(lsts) = 0 THEN <<>>
    ELSE zip_rows(lsts, 0, Len(lsts[1]), <<>>)

zip(lsts) ==
    IF Len(lsts) = 0 THEN <<>>
    ELSE zip_rows(lsts, 0, zip_minLength(lsts, 1, Len(lsts[1])), <<>>)

\* ------------------------------------------------------------------- pairs
pairs_no_overlap(lst) == zip(<<slice(lst, 0, -1), slice_from(lst, 2)>>)

pairs(lst) == zip(<<slice(lst, 0, -1), slice_from(lst, 1)>>)

cyclic_pairs(lst) ==
    IF Len(lst) = 0 THEN <<>> ELSE pairs(concat(lst, elem(lst, 0)))

\* ------------------------------------------------------------------- cycle
cycle_no_rem(arr, n, direction) ==
    LET len == Len(arr)
        m == IF direction = "right" THEN len - n ELSE n
    IN  IF len = 0 THEN <<>>
        ELSE concat(slice_from(arr, m), Arr(slice(arr, 0, m)))

cycle(arr, n, direction) ==
    LET len == Len(arr)
        r == IF len = 0 THEN 0 ELSE JsRem(n, len)
        m == IF direction = "right" THEN len - r ELSE r
    IN  IF len = 0 THEN <<>>
        ELSE concat(slice_from(arr, m), Arr(slice(arr, 0, m)))

\* ---------------------------------------------------------------------- at
at_no_wrap(arr, index) ==
    IF Len(arr) = 0 THEN Undefined
    ELSE LET k == JsRem(index, Len(arr))
         IN  elem(arr, k)

\* The position at reads: ((index % length) + length) % length.
at_position(len, index) == JsRem(JsRem(index, len) + len, len)

at(arr, index) ==
    IF Len(arr) = 0 THEN Undefined
    ELSE elem(arr, at_position(Len(arr), index))

\* --------------------------------------------------------------- find_from
isNonEmptyArray(arr) == Len(arr) > 0

find_from_end_no_wrap(arr, start_index, cyclic) == Len(arr)

\* const end_index = cyclic ? start_index + arr.length : arr.length
find_from_end_index(arr, start_index, cyclic) ==
    IF cyclic THEN start_index + Len(arr) ELSE Len(arr)

\* ---------------------------------------------------------------- mappings
\* A plain object: its own enumerable keys in property order and their
\* values.  Every plain object inherits the members of Object.prototype.
EmptyObject == [keys |-> <<>>, vals |-> <<>>]
ObjectPrototypeKeys == {"toString", "valueOf", "constructor", "hasOwnProperty"}

own_keys(obj) == {obj.keys[i] : i \in 1..Len(obj.keys)}

\* k in obj: own or inherited.
has_in(obj, k) == k \in own_keys(obj) \/ k \in ObjectPrototypeKeys

\* obj[k]: the own value, else the inherited member, else undefined.
get(obj, k) ==
    IF k \in own_keys(obj) THEN obj.vals[k]
    ELSE IF k \in ObjectPrototypeKeys THEN Builtin(k)
    ELSE Undefined

\* The property keys that are canonical array indices, with their numbers:
\* NumKeyNames[n + 1] is the key of the number n.
NumKeyNames == <<"0", "1", "2", "3", "4">>
IsArrayIndex(k) == \E n \in 1..Len(NumKeyNames) : NumKeyNames[n] = k

\* ToPropertyKey of a number, and Number.parseFloat of such a key.
ToPropertyKey(n) == NumKeyNames[n + 1]
parseFloat(k) == (CHOOSE n \in 1..Len(NumKeyNames) : NumKeyNames[n] = k) - 1

\* Property order: array indices ascending first, then the other keys in
\* creation order.  A new key k goes before the first key that follows it.
key_precedes(k, other) ==
    IsArrayIndex(k) /\ (~IsArrayIndex(other) \/ parseFloat(k) < parseFloat(other))

insert_key(keys, k) ==
    LET later == {i \in 1..Len(keys) : key_precedes(k, keys[i])}
        p == IF later = {} THEN Len(keys) + 1
             ELSE CHOOSE i \in later : \A j \in later : i <= j
    IN  SubSeq(keys, 1, p - 1) \o <<k>> \o SubSeq(keys, p, Len(keys))

set_keep_first(obj, k, v) ==
    IF k \in own_keys(obj) THEN obj
    ELSE [keys |-> insert_key(obj.keys, k),
          vals |-> [x \in own_keys(obj) \cup {k} |-> IF x = k THEN v ELSE obj.vals[x]]]

\* CreateDataProperty: a new key is added in property order, an existing key
\* keeps its place and takes the new value.
set(obj, k, v) ==
    [keys |-> IF k \in own_keys(obj) THEN obj.keys ELSE insert_key(obj.keys, k),
     vals |-> [x \in own_keys(obj) \cup {k} |-> IF x = k THEN v ELSE obj.vals[x]]]

\* Object.entries
typed_entries(obj) == [i \in 1..Len(obj.keys) |-> <<obj.keys[i], obj.vals[obj.keys[i]]>>]

\* Object.fromEntries
RECURSIVE from_entries_loop(_, _, _)
from_entries_loop(values, i, obj) ==
    IF i > Len(values) THEN obj
    ELSE from_entries_loop(values, i + 1, set(obj, values[i][1], values[i][2]))

typed_from_entries(values) == from_entries_loop(values, 1, EmptyObject)

\* Object.entries with every key parsed to a number.
typed_number_entries(obj) ==
    [i \in 1..Len(obj.keys) |-> <<parseFloat(obj.keys[i]), obj.vals[obj.keys[i]]>>]

\* func is the callback, as the function from the keys it is applied to.
map_keys(obj, func) ==
    typed_from_entries([i \in 1..Len(typed_entries(obj)) |->
        <<func[typed_entries(obj)[i][1]], typed_entries(obj)[i][2]>>])

\* The numbers func returns become property keys in Object.fromEntries.
map_number_keys(obj, func) ==
    typed_from_entries([i \in 1..Len(typed_number_entries(obj)) |->
        <<ToPropertyKey(func[typed_number_entries(obj)[i][1]]),
          typed_number_entries(obj)[i][2]>>])

map_values(obj, func) ==
    typed_from_entries([i \in 1..Len(typed_entries(obj)) |->
        <<typed_entries(obj)[i][1], func[typed_entries(obj)[i][2]]>>])

map_number_entries(obj, func) ==
    typed_from_entries([i \in 1..Len(typed_number_entries(obj)) |->
        <<ToPropertyKey(func[typed_number_entries(obj)[i]][1]),
          func[typed_number_entries(obj)[i]][2]>>])

\* func is the callback, as the function from the entries it is applied to.
map_entries(obj, func) ==
    typed_from_entries([i \in 1..Len(typed_entries(obj)) |-> func[typed_entries(obj)[i]]])

cover(template, obj) ==
    LET entries == typed_entries(template)
        func == [entry \in {entries[i] : i \in 1..Len(entries)} |->
                    IF has_in(obj, entry[1]) THEN <<entry[1], get(obj, entry[1])>>
                    ELSE <<entry[1], entry[2]>>]
    IN  map_entries(template, func)

\* ----------------------------------------------------------- state machine
\* The functions are pure, so a behaviour is one call: op, args and result
\* are the function invoked, its arguments and the value it returned, and pc
\* is "idle" before the call, "loop" inside the loop of find_from and "done"
\* after the return.  index and end_index are the loop variable and the loop
\* bound of find_from; tested lists the indices whose element it has handed
\* to the predicate so far.
VARIABLES op, args, result, pc, index, end_index, tested

\* invoked counts the calls unthrow has made to the function it was given.
VARIABLES invoked

\* The state that outlives a call.  cache is the module-level memo Map of
\* cached and computations counts, per key, the computations cached has run.
\* set_members is the Set handed to ensure_delete_from_set, in iteration
\* order.  target is the object handed to object_assign_if_truthy, target0
\* the same object before the first call and last_value, per key, the value
\* of the latest call made for it.
VARIABLES cache, computations, set_members, target, target0, last_value

\* The arrays of the caller.  heap is the memory of arrays, an array being
\* known by its address (its position in heap), so that two arrays with the
\* same elements are told apart; inputs is the content the caller gave to the
\* arrays it created.
VARIABLES heap, inputs

\* calls lists, in order, the argument pairs with which the function in
\* progress has invoked the callbacks it was given.
VARIABLES calls

\* stack holds the calls of cached whose computation is still running, the
\* innermost last.
VARIABLES stack

store == <<cache, computations, set_members, target, target0, last_value,
           heap, inputs, calls, stack>>

vars == <<op, args, result, pc, index, end_index, tested, invoked, store>>

Ints == -MaxInt..MaxInt
Idxs == -MaxIdx..MaxIdx
Keys == {"x", "n", "toString"}
MapVals == {Num(3), Undefined}

\* Key orders without repetition, and the plain objects built on them.
KeySeqs == {ks \in SeqsUpTo(Keys, MaxKeys) :
               \A i, j \in 1..Len(ks) : i # j => ks[i] # ks[j]}
Objects == UNION {{[keys |-> ks, vals |-> f] :
                      f \in [{ks[i] : i \in 1..Len(ks)} -> MapVals]} : ks \in KeySeqs}

\* Objects whose keys are numbers, in property order.
NumKeys == {"0", "1", "2"}
NumObjects == UNION {{[keys |-> SelectSeq(NumKeyNames, LAMBDA k : k \in S), vals |-> f] :
                         f \in [S -> MapVals]} :
                     S \in {T \in SUBSET NumKeys : Cardinality(T) <= MaxKeys}}
entry_set(entries) == {entries[i] : i \in 1..Len(entries)}

\* No memo entry, no set and no object to update.
NoStore ==
    /\ cache = <<>>
    /\ computations = <<>>
    /\ set_members = <<>>
    /\ target = EmptyObject
    /\ target0 = EmptyObject
    /\ last_value = <<>>
    /\ heap = <<>>
    /\ inputs = <<>>
    /\ calls = <<>>
    /\ stack = <<>>

\* A function without a loop of its own returns in one step.
Returned == /\ pc' = "done"
            /\ UNCHANGED <<index, end_index, tested, invoked, store>>

Init ==
    /\ op = "none"
    /\ args = <<>>
    /\ result = Undefined
    /\ pc = "idle"
    /\ index = 0
    /\ end_index = 0
    /\ tested = <<>>
    /\ invoked = 0
    /\ NoStore

CallRange ==
    /\ pc = "idle"
    /\ \E arg1 \in Ints, arg2 \in {Undefined} \cup {Num(b) : b \in Ints} :
          /\ op' = "range"
          /\ args' = [arg1 |-> arg1, arg2 |-> arg2]
          /\ result' = range(arg1, arg2)
    /\ Returned

CallZip ==
    /\ pc = "idle"
    /\ \E lsts \in SeqsUpTo(SeqsUpTo(Scalars, MaxLen), MaxLists) :
          /\ op' = "zip"
          /\ args' = [lsts |-> lsts]
          /\ result' = zip(lsts)
    /\ Returned

CallPairs ==
    /\ pc = "idle"
    /\ \E lst \in SeqsUpTo(Vals, MaxLen) :
          /\ op' = "pairs"
          /\ args' = [lst |-> lst]
          /\ result' = pairs(lst)
    /\ Returned

CallCyclicPairs ==
    /\ pc = "idle"
    /\ \E lst \in SeqsUpTo(Vals, MaxLen) :
          /\ op' = "cyclic_pairs"
          /\ args' = [lst |-> lst]
          /\ result' = cyclic_pairs(lst)
    /\ Returned

CallCycle ==
    /\ pc = "idle"
    /\ \E arr \in SeqsUpTo(Vals, MaxLen), n \in Idxs, direction \in {"left", "right"} :
          /\ op' = "cycle"
          /\ args' = [arr |-> arr, n |-> n, direction |-> direction]
          /\ result' = cycle(arr, n, direction)
    /\ Returned

CallAt ==
    /\ pc = "idle"
    /\ \E arr \in SeqsUpTo(Vals, MaxLen), i \in Idxs :
          /\ op' = "at"
          /\ args' = [arr |-> arr, index |-> i]
          /\ result' = at(arr, i)
    /\ Returned

CallCover ==
    /\ pc = "idle"
    /\ \E template \in Objects, obj \in Objects :
          /\ op' = "cover"
          /\ args' = [template |-> template, obj |-> obj]
          /\ result' = cover(template, obj)
    /\ Returned

CallMapKeys ==
    /\ pc = "idle"
    /\ \E obj \in Objects : \E func \in [own_keys(obj) -> Keys] :
          /\ op' = "map_keys"
          /\ args' = [obj |-> obj, func |-> func]
          /\ result' = map_keys(obj, func)
    /\ Returned

CallMapNumberKeys ==
    /\ pc = "idle"
    /\ \E obj \in NumObjects :
          \E func \in [{parseFloat(k) : k \in own_keys(obj)} -> {parseFloat(k) : k \in NumKeys}] :
          /\ op' = "map_number_keys"
          /\ args' = [obj |-> obj, func |-> func]
          /\ result' = map_number_keys(obj, func)
    /\ Returned

CallMapValues ==
    /\ pc = "idle"
    /\ \E obj \in Objects \cup NumObjects : \E func \in [MapVals -> MapVals \cup {Num(0)}] :
          /\ op' = "map_values"
          /\ args' = [obj |-> obj, func |-> func]
          /\ result' = map_values(obj, func)
    /\ Returned

CallMapEntries ==
    /\ pc = "idle"
    /\ \E obj \in Objects :
          \E func \in [entry_set(typed_entries(obj)) -> Keys \X MapVals] :
          /\ op' = "map_entries"
          /\ args' = [obj |-> obj, func |-> func]
          /\ result' = map_entries(obj, func)
    /\ Returned

CallMapNumberEntries ==
    /\ pc = "idle"
    /\ \E obj \in NumObjects :
          \E func \in [entry_set(typed_number_entries(obj)) ->
                          {parseFloat(k) : k \in NumKeys} \X MapVals] :
          /\ op' = "map_number_entries"
          /\ args' = [obj |-> obj, func |-> func]
          /\ result' = map_number_entries(obj, func)
    /\ Returned

\* find_from up to its loop: the empty-array return, or index and end_index.
\* The predicate is the set of values it accepts.
FindFromCall ==
    /\ pc = "idle"
    /\ \E arr \in SeqsUpTo(Scalars, MaxLen), predicate \in SUBSET Scalars,
          start_index \in Idxs, cyclic \in BOOLEAN :
          /\ op' = "find_from"
          /\ args' = [arr |-> arr, predicate |-> predicate,
                      start_index |-> start_index, cyclic |-> cyclic]
          /\ tested' = <<>>
          /\ IF ~isNonEmptyArray(arr)
             THEN /\ pc' = "done"
                  /\ result' = Undefined
                  /\ index' = 0
                  /\ end_index' = 0
             ELSE /\ pc' = "loop"
                  /\ result' = Undefined
                  /\ index' = start_index
                  /\ end_index' = find_from_end_index(arr, start_index, cyclic)
    /\ UNCHANGED <<invoked, store>>

\* One iteration of the loop: the predicate is applied to at(arr, index).
FindFromTest ==
    /\ pc = "loop"
    /\ index < end_index
    /\ tested' = Append(tested, index)
    /\ IF at(args.arr, index) \in args.predicate
       THEN /\ result' = at(args.arr, index)
            /\ pc' = "done"
            /\ index' = index
       ELSE /\ index' = index + 1
            /\ UNCHANGED <<result, pc>>
    /\ UNCHANGED <<op, args, end_index, invoked, store>>

\* The loop condition fails: return undefined.
FindFromExhausted ==
    /\ pc = "loop"
    /\ ~(index < end_index)
    /\ result' = Undefined
    /\ pc' = "done"
    /\ UNCHANGED <<op, args, index, end_index, tested, invoked, store>>

\* ------------------------------------------------------------ has_property
\* The built-in prototype objects, and the prototype { protoProp: 'exists' }
\* of the documentation's example: own keys and next prototype.
Prototypes ==
    [name \in {"Object.prototype", "Number.prototype", "String.prototype",
               "Array.prototype", "Function.prototype", "protoObj"} |->
        CASE name = "Object.prototype" -> [own |-> ObjectPrototypeKeys, proto |-> "null"]
          [] name = "Number.prototype" ->
                [own |-> {"toFixed", "toString", "valueOf", "constructor"},
                 proto |-> "Object.prototype"]
          [] name = "String.prototype" ->
                [own |-> {"charAt", "length", "toString", "valueOf", "constructor"},
                 proto |-> "Object.prototype"]
          [] name = "Array.prototype" ->
                [own |-> {"push", "length", "toString", "constructor"},
                 proto |-> "Object.prototype"]
          [] name = "Function.prototype" ->
                [own |-> {"call", "apply", "bind", "length", "name", "toString", "constructor"},
                 proto |-> "Object.prototype"]
          [] name = "protoObj" -> [own |-> {"protoProp"}, proto |-> "Object.prototype"]]

index_keys(n) == {NumKeyNames[i] : i \in 1..n}

\* The own property keys and the prototype of Object(v), v not null or
\* undefined: a primitive is boxed, an object is itself.
own_property_keys(v) ==
    CASE v.kind = "number" -> {}
      [] v.kind = "string" -> index_keys(Len(v.str)) \cup {"length"}
      [] v.kind = "array" -> index_keys(Len(v.items)) \cup {"length"}
      [] v.kind = "function" -> {"length", "name", "prototype"}
      [] v.kind = "object" -> {v.items[i].items[1].str : i \in 1..Len(v.items)}

prototype_of(v) ==
    CASE v.kind = "number" -> "Number.prototype"
      [] v.kind = "string" -> "String.prototype"
      [] v.kind = "array" -> "Array.prototype"
      [] v.kind = "function" -> "Function.prototype"
      [] v.kind = "object" -> v.str

\* Object(obj)
ToObject(v) == [own |-> own_property_keys(v), proto |-> prototype_of(v)]

\* prop in o: the own keys, then the prototype chain, link by link.
RECURSIVE HasProperty(_, _)
HasProperty(o, key) ==
    \/ key \in o.own
    \/ o.proto # "null" /\ HasProperty(Prototypes[o.proto], key)

\* A property key given as a text or as a number.
property_key(prop) == IF prop.kind = "number" THEN ToPropertyKey(prop.num) ELSE prop.str

\* obj?.[prop] for the own properties of an object value: undefined when the
\* property is missing or holds undefined.
own_value_defined(obj, key) ==
    obj.kind # "object" \/
    \A i \in 1..Len(obj.items) :
        obj.items[i].items[1].str = key => obj.items[i].items[2] # Undefined

has_property_typeof(obj, prop) ==
    IF obj.kind = "null" \/ obj.kind = "undefined" THEN FALSE
    ELSE /\ HasProperty(ToObject(obj), property_key(prop))
         /\ own_value_defined(obj, property_key(prop))

has_property(obj, prop) ==
    IF obj.kind = "null" \/ obj.kind = "undefined" THEN FALSE
    ELSE HasProperty(ToObject(obj), property_key(prop))

HasPropertySubjects ==
    {Null, Undefined, Num(3), Str("ab"), Arr(<<>>), Arr(<<Num(1), Num(2)>>), Builtin("noop"),
     Obj("Object.prototype", <<>>),
     Obj("Object.prototype", <<Prop("a", Num(1)), Prop("u", Undefined)>>),
     Obj("Object.prototype", <<Prop("2", Str("test")), Prop("ok", Str("ok"))>>),
     Obj("protoObj", <<>>),
     Obj("protoObj", <<Prop("u", Undefined)>>),
     Obj("null", <<Prop("a", Num(1))>>)}

HasPropertyKeys ==
    {Str(k) : k \in {"a", "u", "ok", "b", "length", "toString", "call", "protoProp", "0", "2"}}
        \cup {Num(0), Num(2), Num(4)}

CallHasProperty ==
    /\ pc = "idle"
    /\ \E obj \in HasPropertySubjects, prop \in HasPropertyKeys :
          /\ op' = "has_property"
          /\ args' = [obj |-> obj, prop |-> prop]
          /\ result' = Bool(has_property(obj, prop))
    /\ Returned

\* ------------------------------------------------------------------ cached
\* The memo Map as a function from its keys to the stored results.
Map_has(m, key) == key \in DOMAIN m
Map_get(m, key) == IF key \in DOMAIN m THEN m[key] ELSE Undefined
Map_set(m, key, value) ==
    [k \in DOMAIN m \cup {key} |-> IF k = key THEN value ELSE m[k]]

\* A computation passed to cached: a function that completes normally and
\* returns func.returns.
CacheKeys == {"key1", "key2", "key3"}
CacheFuncs == {[returns |-> v] : v \in {Num(1), Num(2), Undefined}}

cached_get_defined(c, func, key) ==
    IF Map_get(c, key) # Undefined
    THEN [result |-> Map_get(c, key), cache |-> c, ran |-> 0]
    ELSE [result |-> func.returns, cache |-> Map_set(c, key, func.returns), ran |-> 1]

\* cached(func, key) on the memo c: the value returned, the memo afterwards
\* and the number of times func ran.
cached(c, func, key) ==
    IF Map_has(c, key)
    THEN [result |-> Map_get(c, key), cache |-> c, ran |-> 0]
    ELSE [result |-> func.returns, cache |-> Map_set(c, key, func.returns), ran |-> 1]

CallCached ==
    \E func \in CacheFuncs, key \in CacheKeys :
        /\ op' = "cached"
        /\ args' = [func |-> func, key |-> key]
        /\ result' = cached(cache, func, key).result
        /\ cache' = cached(cache, func, key).cache
        /\ computations' = [computations EXCEPT ![key] = @ + cached(cache, func, key).ran]
        /\ UNCHANGED <<pc, index, end_index, tested, invoked,
                       set_members, target, target0, last_value, heap, inputs,
                       calls, stack>>

\* -------------------------------------------------- ensure_delete_from_set
\* A Set holds its members in insertion order.  A member or an argument is a
\* value with its identity: ref is 0 for a primitive and the address of the
\* object otherwise, so two objects can have equal contents and differ.
Primitive(v) == [ref |-> 0, val |-> v]
Reference(address, v) == [ref |-> address, val |-> v]

\* The membership test of Set (SameValueZero) and lodash's isEqual.
SameValueZero(a, b) == IF a.ref = 0 /\ b.ref = 0 THEN a.val = b.val ELSE a.ref = b.ref
isEqual(a, b) == a.val = b.val

SetHas(s, value) == \E i \in 1..Len(s) : SameValueZero(s[i], value)
SetDelete(s, value) == SelectSeq(s, LAMBDA m : ~SameValueZero(m, value))

\* for (const v of set) { if (isEqual(v, value)) { set.delete(v); break } }
RECURSIVE ensure_delete_scan(_, _, _)
ensure_delete_scan(s, value, i) ==
    IF i > Len(s) THEN [found |-> FALSE, set |-> s]
    ELSE IF isEqual(s[i], value) THEN [found |-> TRUE, set |-> SetDelete(s, s[i])]
    ELSE ensure_delete_scan(s, value, i + 1)

ensure_delete_all_equal(s, value) ==
    IF SetHas(s, value) \/ \E i \in 1..Len(s) : isEqual(s[i], value)
    THEN [found |-> TRUE,
          set |-> SelectSeq(s, LAMBDA m : ~SameValueZero(m, value) /\ ~isEqual(m, value))]
    ELSE [found |-> FALSE, set |-> s]

\* ensure_delete_from_set(set, value): the boolean returned and the set
\* afterwards.
ensure_delete_from_set(s, value) ==
    IF SetHas(s, value) THEN [found |-> TRUE, set |-> SetDelete(s, value)]
    ELSE ensure_delete_scan(s, value, 1)

Point(x) == Obj("Object.prototype", <<Prop("x", Num(x))>>)
SetPool == {Primitive(Num(1)), Primitive(Num(2)),
            Reference(1, Point(1)), Reference(2, Point(1)), Reference(3, Point(2))}
SetArguments == SetPool \cup {Primitive(Num(3)), Reference(4, Point(1)), Reference(5, Point(3))}
InitialSets == {s \in SeqsUpTo(SetPool, MaxSet) :
                   \A i, j \in 1..Len(s) : i # j => ~SameValueZero(s[i], s[j])}

CallEnsureDelete ==
    \E value \in SetArguments :
        /\ op' = "ensure_delete_from_set"
        /\ args' = [value |-> value]
        /\ result' = Bool(ensure_delete_from_set(set_members, value).found)
        /\ set_members' = ensure_delete_from_set(set_members, value).set
        /\ UNCHANGED <<pc, index, end_index, tested, invoked,
                       cache, computations, target, target0, last_value, heap, inputs,
                       calls, stack>>

\* ------------------------------------------------- object_assign_if_truthy
\* ToBoolean: undefined, null, false, 0 and the empty text are falsy.
truthy(v) ==
    ~ \/ v.kind = "undefined"
      \/ v.kind = "null"
      \/ v.kind = "boolean" /\ v.num = 0
      \/ v.kind = "number" /\ v.num = 0
      \/ v.kind = "string" /\ v.str = ""

\* delete obj[key]
delete_property(obj, key) ==
    [keys |-> SelectSeq(obj.keys, LAMBDA k : k # key),
     vals |-> [x \in own_keys(obj) \ {key} |-> obj.vals[x]]]

object_assign_unless_nullish(obj, key, value) ==
    IF value.kind # "undefined" /\ value.kind # "null" THEN set(obj, key, value)
    ELSE delete_property(obj, key)

\* The object after object_assign_if_truthy(obj, key, value).
object_assign_if_truthy(obj, key, value) ==
    IF truthy(value) THEN set(obj, key, value) ELSE delete_property(obj, key)

AssignKeys == {"x", "toString"}
AssignVals == {Num(3), Str("5"), Num(0), Str(""), Bool(FALSE), Null, Undefined}

CallObjectAssignIfTruthy ==
    \E key \in AssignKeys, value \in AssignVals :
        /\ op' = "object_assign_if_truthy"
        /\ args' = [key |-> key, value |-> value]
        /\ result' = Undefined
        /\ target' = object_assign_if_truthy(target, key, value)
        /\ last_value' = [last_value EXCEPT ![key] = <<value>>]
        /\ UNCHANGED <<pc, index, end_index, tested, invoked,
                       cache, computations, set_members, target0, heap, inputs,
                       calls, stack>>

\* -------------------------------------------------------------- init_array
\* An object identified by its address: a copy of it has another address.
ObjAt(address) == [kind |-> "object", num |-> address, str |-> "Object.prototype", items |-> <<>>]

RECURSIVE init_array_copies(_, _)
init_array_copies(initValue, dimensions) ==
    IF Len(dimensions) = 0 THEN initValue
    ELSE Arr([i \in 1..dimensions[1] |->
                 IF Len(dimensions) = 1 /\ initValue.kind = "object"
                 THEN ObjAt(initValue.num + i)
                 ELSE init_array_copies(initValue, Tail(dimensions))])

RECURSIVE init_array(_, _)

\* for (let i = 0; i < first; i++) result.push(init_array(initValue, rest))
RECURSIVE init_array_loop(_, _, _, _)
init_array_loop(initValue, first, rest, pushed) ==
    IF Len(pushed) < first
    THEN init_array_loop(initValue, first, rest, Append(pushed, init_array(initValue, rest)))
    ELSE pushed

init_array(initValue, dimensions) ==
    IF Len(dimensions) = 0 THEN initValue
    ELSE Arr(init_array_loop(initValue, dimensions[1], Tail(dimensions), <<>>))

InitValues == {Num(3), ObjAt(1), Arr(<<>>), Undefined}

CallInitArray ==
    /\ pc = "idle"
    /\ \E initValue \in InitValues, dimensions \in SeqsUpTo(0..MaxDim, MaxDims) :
          /\ op' = "init_array"
          /\ args' = [initValue |-> initValue, dimensions |-> dimensions]
          /\ result' = init_array(initValue, dimensions)
    /\ Returned

\* ----------------------------------------------------------------- unthrow
\* The function handed to unthrow: a call of it either returns value, or
\* throws it.
ThrowingFuncs == [throws : BOOLEAN, value : {Num(3), Num(0), Undefined, Null, Str("boom")}]

unthrow_rethrow(error) == [pc |-> "thrown", result |-> error]

\* catch (_) { return undefined; }
unthrow_catch(error) == [pc |-> "done", result |-> Undefined]

\* unthrow(func) is entered: the try block is about to run.
UnthrowCall ==
    /\ pc = "idle"
    /\ \E func \in ThrowingFuncs :
          /\ op' = "unthrow"
          /\ args' = [func |-> func]
    /\ pc' = "unthrow_try"
    /\ UNCHANGED <<result, index, end_index, tested, invoked, store>>

\* return func(): func runs; what it returns is returned, what it throws is
\* on its way to the catch clause.
UnthrowInvoke ==
    /\ pc = "unthrow_try"
    /\ invoked' = invoked + 1
    /\ IF args.func.throws
       THEN /\ pc' = "unthrow_thrown"
            /\ UNCHANGED result
       ELSE /\ pc' = "done"
            /\ result' = args.func.value
    /\ UNCHANGED <<op, args, index, end_index, tested, store>>

UnthrowCatch ==
    /\ pc = "unthrow_thrown"
    /\ pc' = unthrow_catch(args.func.value).pc
    /\ result' = unthrow_catch(args.func.value).result
    /\ UNCHANGED <<op, args, index, end_index, tested, invoked, store>>

\* --------------------------------------------------- nullableobj_to_partial
\* v ?? fallback
nullish_coalesce(v, fallback) ==
    IF v.kind = "null" \/ v.kind = "undefined" THEN fallback ELSE v

nullableobj_to_partial_truthy(obj) ==
    typed_from_entries(SelectSeq(typed_entries(obj), LAMBDA e : truthy(e[2])))

nullableobj_to_partial(obj) ==
    typed_from_entries(
        SelectSeq(typed_entries(obj),
                  LAMBDA e : IF nullish_coalesce(e[2], Null) = Null THEN FALSE ELSE TRUE))

NullableVals == {Num(3), Num(0), Str(""), Bool(FALSE), Null, Undefined}
NullableObjects == UNION {{[keys |-> ks, vals |-> f] :
                              f \in [{ks[i] : i \in 1..Len(ks)} -> NullableVals]} : ks \in KeySeqs}

CallNullableobjToPartial ==
    /\ pc = "idle"
    /\ \E obj \in NullableObjects :
          /\ op' = "nullableobj_to_partial"
          /\ args' = [obj |-> obj]
          /\ result' = nullableobj_to_partial(obj)
    /\ Returned

\* ---------------------------------------------------------------- index_by
index_by_first_wins(arr, key) ==
    typed_from_entries([i \in 1..Len(arr) |->
        <<get(arr[Len(arr) + 1 - i], key).str, arr[Len(arr) + 1 - i]>>])

\* arr.map((v) => [v[key], v]); the field holds a text, which is its own
\* property key.
index_by(arr, key) ==
    typed_from_entries([i \in 1..Len(arr) |-> <<get(arr[i], key).str, arr[i]>>])

\* Records with a text field id and a second field that tells apart records
\* sharing an id.
IdTexts == {"a", "b", "1"}
Records == {[keys |-> <<"id", "name">>, vals |-> [id |-> Str(i), name |-> n]] :
               i \in IdTexts, n \in Scalars}

CallIndexBy ==
    /\ pc = "idle"
    /\ \E arr \in SeqsUpTo(Records, MaxLen) :
          /\ op' = "index_by"
          /\ args' = [arr |-> arr, key |-> "id"]
          /\ result' = index_by(arr, "id")
    /\ Returned

\* ------------------------------------- the first version of range and zip
\* lodash toInteger of a boolean.
toInteger(b) == IF b THEN 1 ELSE 0

\* range of src/lib/index.ts: start and end follow the truthiness of arg2,
\* and element v of Array(|end - start|).keys() becomes
\* -v * (toInteger(start > end) - 0.5) * 2 + start.  The product of the last
\* two factors is exact in floating point and is written 2 * toInteger - 1.
range_arithmetic(arg1, arg2) ==
    LET end == IF truthy(arg2) THEN arg2.num ELSE arg1
        start == IF truthy(arg2) THEN arg1 ELSE 0
    IN  [k \in 1..Abs(end - start) |->
            Num(-(k - 1) * (2 * toInteger(start > end) - 1) + start)]

maxBy_first(lsts) == lsts[1]

\* lodash maxBy(lsts, (v) => v.length): the first list of the greatest length.
maxBy(lsts) ==
    lsts[CHOOSE i \in 1..Len(lsts) :
            /\ \A j \in 1..Len(lsts) : Len(lsts[j]) <= Len(lsts[i])
            /\ \A j \in 1..(i - 1) : Len(lsts[j]) < Len(lsts[i])]

\* zip of src/lib/index.ts, which runs to the longest list.
zip_longest(lsts) ==
    IF Len(lsts) = 0 THEN <<>>
    ELSE LET max_value == maxBy(lsts)
             indices == range_arithmetic(Len(max_value), Undefined)
         IN  [k \in 1..Len(indices) |->
                 [j \in 1..Len(lsts) |-> elem(lsts[j], indices[k].num)]]

CallZipLongest ==
    /\ pc = "idle"
    /\ \E lsts \in SeqsUpTo(SeqsUpTo(Scalars, MaxLen), MaxLists) :
          /\ op' = "zip_longest"
          /\ args' = [lsts |-> lsts]
          /\ result' = zip_longest(lsts)
    /\ Returned

\* --------------------------------------- the sequence utilities on arrays
\* The sequence utilities once more, on arrays that have an identity.  An
\* array is an address of the memory h, its elements are h[address], and an
\* element that is itself an array is the value Ref(address).  Every
\* operator returns the memory it leaves and the address or value it returns.
Ref(address) == [kind |-> "ref", num |-> address, str |-> "", items |-> <<>>]

\* [] and every array-returning built-in: a new array.
alloc(h, items) == [heap |-> Append(h, items), ref |-> Len(h) + 1]

\* arr.push(v)
push(h, arr, v) == [h EXCEPT ![arr] = Append(@, v)]

\* arr.slice(start, end) and arr.slice(start)
heap_slice(h, arr, start, end) == alloc(h, slice(h[arr], start, end))
heap_slice_from(h, arr, start) == alloc(h, slice_from(h[arr], start))

\* arr.concat(item)
heap_concat(h, arr, item) ==
    alloc(h, IF item.kind = "ref" THEN h[arr] \o h[item.num] ELSE Append(h[arr], item))

\* The elements of the arrays that the elements of lsts refer to.
lists_of(h, lsts) == [j \in 1..Len(h[lsts]) |-> h[h[lsts][j].num]]

\* result.push(lsts.map((lst) => lst[i])) for each i
RECURSIVE heap_zip_rows(_, _, _, _, _)
heap_zip_rows(h, lsts, i, minLength, res) ==
    IF i < minLength
    THEN LET row == alloc(h, [j \in 1..Len(h[lsts]) |-> elem(lists_of(h, lsts)[j], i)])
         IN  heap_zip_rows(push(row.heap, res, Ref(row.ref)), lsts, i + 1, minLength, res)
    ELSE [heap |-> h, ref |-> res]

heap_zip(h, lsts) ==
    IF Len(h[lsts]) = 0 THEN alloc(h, <<>>)
    ELSE LET minLength == zip_minLength(lists_of(h, lsts), 1, Len(lists_of(h, lsts)[1]))
             res == alloc(h, <<>>)
         IN  heap_zip_rows(res.heap, lsts, 0, minLength, res.ref)

\* zip([lst.slice(0, -1), lst.slice(1)])
heap_pairs(h, lst) ==
    LET front == heap_slice(h, lst, 0, -1)
        back == heap_slice_from(front.heap, lst, 1)
        lsts == alloc(back.heap, <<Ref(front.ref), Ref(back.ref)>>)
    IN  heap_zip(lsts.heap, lsts.ref)

heap_cyclic_pairs(h, lst) ==
    IF Len(h[lst]) = 0 THEN alloc(h, <<>>)
    ELSE LET closed == heap_concat(h, lst, elem(h[lst], 0))
         IN  heap_pairs(closed.heap, closed.ref)

heap_cycle_reusing(h, arr, n, direction) ==
    LET len == Len(h[arr])
        r == IF len = 0 THEN 0 ELSE JsRem(n, len)
        m == IF direction = "right" THEN len - r ELSE r
        back == heap_slice_from(h, arr, m)
        front == heap_slice(back.heap, arr, 0, m)
    IN  IF len = 0 THEN alloc(h, <<>>)
        ELSE IF r = 0 THEN [heap |-> h, ref |-> arr]
        ELSE heap_concat(front.heap, back.ref, Ref(front.ref))

\* arr.slice(n).concat(arr.slice(0, n))
heap_cycle(h, arr, n, direction) ==
    LET len == Len(h[arr])
        r == IF len = 0 THEN 0 ELSE JsRem(n, len)
        m == IF direction = "right" THEN len - r ELSE r
        back == heap_slice_from(h, arr, m)
        front == heap_slice(back.heap, arr, 0, m)
    IN  IF len = 0 THEN alloc(h, <<>>)
        ELSE heap_concat(front.heap, back.ref, Ref(front.ref))

\* The while loop of find_from, from index on.
RECURSIVE find_from_loop(_, _, _, _)
find_from_loop(arr, predicate, i, last) ==
    IF i < last
    THEN IF at(arr, i) \in predicate THEN at(arr, i)
         ELSE find_from_loop(arr, predicate, i + 1, last)
    ELSE Undefined

find_from(arr, predicate, start_index, cyclic) ==
    IF ~isNonEmptyArray(arr) THEN Undefined
    ELSE find_from_loop(arr, predicate, start_index,
                        find_from_end_index(arr, start_index, cyclic))

\* The caller owns the arrays of inputs: two of numbers and, last, the list
\* of arrays it hands to zip, in which an array may occur twice.
Rots == -MaxRot..MaxRot
CallerHeaps ==
    {<<a, b, lsts>> : a \in SeqsUpTo(Scalars, MaxHeapLen),
                      b \in SeqsUpTo({Num(1)}, MaxHeapLen),
                      lsts \in SeqsUpTo({Ref(1), Ref(2)}, MaxRefs)}

\* What earlier calls allocated is garbage when the next call starts: the
\* caller keeps its own arrays, as the calls have left them.
kept == SubSeq(heap, 1, Len(inputs))

HeapFrame == UNCHANGED <<pc, index, end_index, tested, invoked, inputs, calls, stack,
                         cache, computations, set_members, target, target0, last_value>>

HeapZip ==
    /\ op' = "zip"
    /\ args' = [lsts |-> Len(inputs)]
    /\ heap' = heap_zip(kept, Len(inputs)).heap
    /\ result' = Ref(heap_zip(kept, Len(inputs)).ref)
    /\ HeapFrame

HeapPairs ==
    /\ \E lst \in 1..Len(inputs) :
          /\ op' = "pairs"
          /\ args' = [lst |-> lst]
          /\ heap' = heap_pairs(kept, lst).heap
          /\ result' = Ref(heap_pairs(kept, lst).ref)
    /\ HeapFrame

HeapCyclicPairs ==
    /\ \E lst \in 1..Len(inputs) :
          /\ op' = "cyclic_pairs"
          /\ args' = [lst |-> lst]
          /\ heap' = heap_cyclic_pairs(kept, lst).heap
          /\ result' = Ref(heap_cyclic_pairs(kept, lst).ref)
    /\ HeapFrame

HeapCycle ==
    /\ \E arr \in 1..Len(inputs), n \in Rots, direction \in {"left", "right"} :
          /\ op' = "cycle"
          /\ args' = [arr |-> arr, n |-> n, direction |-> direction]
          /\ heap' = heap_cycle(kept, arr, n, direction).heap
          /\ result' = Ref(heap_cycle(kept, arr, n, direction).ref)
    /\ HeapFrame

HeapRange ==
    /\ \E arg1 \in Rots, arg2 \in {Undefined} :
          /\ op' = "range"
          /\ args' = [arg1 |-> arg1, arg2 |-> arg2]
          /\ heap' = alloc(kept, range(arg1, arg2)).heap
          /\ result' = Ref(alloc(kept, range(arg1, arg2)).ref)
    /\ HeapFrame

HeapAt ==
    /\ \E arr \in 1..Len(inputs), i \in Rots :
          /\ op' = "at"
          /\ args' = [arr |-> arr, index |-> i]
          /\ heap' = kept
          /\ result' = at(kept[arr], i)
    /\ HeapFrame

HeapFindFrom ==
    /\ \E arr \in 1..(Len(inputs) - 1), predicate \in {{Num(2)}}, start_index \in Rots,
          cyclic \in BOOLEAN :
          /\ op' = "find_from"
          /\ args' = [arr |-> arr, predicate |-> predicate,
                      start_index |-> start_index, cyclic |-> cyclic]
          /\ heap' = kept
          /\ result' = find_from(kept[arr], predicate, start_index, cyclic)
    /\ HeapFrame

\* ---------------------------------------------------------- fold and apply
\* The reducers handed to fold and apply, by name.
Reducers == {"add", "sub", "mul", "digits"}
reduce(func, value, value2) ==
    CASE func = "add" -> value + value2
      [] func = "sub" -> value - value2
      [] func = "mul" -> value * value2
      [] func = "digits" -> 10 * value + value2

\* values.forEach((value2) => { value = func(value, value2); }) from element
\* i on; log is the list of the calls of func made so far.
RECURSIVE fold_backwards(_, _, _, _, _)
fold_backwards(value, values, func, i, log) ==
    IF i >= 1
    THEN fold_backwards(reduce(func, value, values[i]), values, func, i - 1,
                        Append(log, <<value, values[i]>>))
    ELSE [value |-> value, calls |-> log]

RECURSIVE fold_forEach(_, _, _, _, _)
fold_forEach(value, values, func, i, log) ==
    IF i <= Len(values)
    THEN fold_forEach(reduce(func, value, values[i]), values, func, i + 1,
                      Append(log, <<value, values[i]>>))
    ELSE [value |-> value, calls |-> log]

fold_from_the_end(value, values, func) == fold_backwards(value, values, func, Len(values), <<>>)

fold(value, values, func) == fold_forEach(value, values, func, 1, <<>>)

\* values.forEach(([value2, func]) => { value = func(value, value2); })
RECURSIVE apply_forEach(_, _, _, _)
apply_forEach(value, values, i, log) ==
    IF i <= Len(values)
    THEN apply_forEach(reduce(values[i][2], value, values[i][1]), values, i + 1,
                       Append(log, <<value, values[i][1]>>))
    ELSE [value |-> value, calls |-> log]

apply(value, values) == apply_forEach(value, values, 1, <<>>)

FoldStarts == 0..2
FoldElements == 1..3
ApplySteps == {<<value2, func>> : value2 \in 2..3, func \in {"add", "sub", "mul"}}

CallFold ==
    /\ pc = "idle"
    /\ \E value \in FoldStarts, values \in SeqsUpTo(FoldElements, MaxLen), func \in Reducers :
          /\ op' = "fold"
          /\ args' = [value |-> value, values |-> values, func |-> func]
          /\ result' = Num(fold(value, values, func).value)
          /\ calls' = fold(value, values, func).calls
    /\ pc' = "done"
    /\ UNCHANGED <<index, end_index, tested, invoked, cache, computations, set_members,
                   target, target0, last_value, heap, inputs, stack>>

CallApply ==
    /\ pc = "idle"
    /\ \E value \in FoldStarts, values \in SeqsUpTo(ApplySteps, MaxLen) :
          /\ op' = "apply"
          /\ args' = [value |-> value, values |-> values]
          /\ result' = Num(apply(value, values).value)
          /\ calls' = apply(value, values).calls
    /\ pc' = "done"
    /\ UNCHANGED <<index, end_index, tested, invoked, cache, computations, set_members,
                   target, target0, last_value, heap, inputs, stack>>

\* -------------------------------------------------------------- final_join
\* Array.prototype.join of texts, from element i on.
RECURSIVE join_from(_, _, _)
join_from(lst, separator, i) ==
    IF i > Len(lst) THEN ""
    ELSE IF i = Len(lst) THEN lst[i]
    ELSE lst[i] \o separator \o join_from(lst, separator, i + 1)

join(lst, separator) == join_from(lst, separator, 1)

final_join_plain(lst, default_seperator, final_seperator) ==
    join(lst, default_seperator)

final_join(lst, default_seperator, final_seperator) ==
    IF Len(lst) = 1 THEN lst[1]
    ELSE IF Len(lst) = 0 THEN ""
    ELSE (IF Len(lst) = 2 THEN ""
          ELSE join(slice(lst, 0, -2), default_seperator) \o default_seperator)
         \o join(slice_from(lst, -2), final_seperator)

Texts == {"", "a", "b"}
Separators == {", ", "", "a"}
FinalSeparators == {" and ", "", ", "}

CallFinalJoin ==
    /\ pc = "idle"
    /\ \E lst \in SeqsUpTo(Texts, MaxLen), default_seperator \in Separators,
          final_seperator \in FinalSeparators :
          /\ op' = "final_join"
          /\ args' = [lst |-> lst, default_seperator |-> default_seperator,
                      final_seperator |-> final_seperator]
          /\ result' = Str(final_join(lst, default_seperator, final_seperator))
    /\ Returned

\* ------------------------------------------- range that rejects descending
\* Array(length): a negative length is a RangeError.
ArrayOfLength(length) ==
    IF length < 0 THEN [threw |-> TRUE, value |-> Str("RangeError: Invalid array length")]
    ELSE [threw |-> FALSE, value |-> [v \in 1..length |-> Undefined]]

\* The version of range that throws on arg1 > arg2.  arg2 is taken as absent
\* when it is falsy, which 0 is as well as undefined.
range_fail_fast(arg1, arg2) ==
    LET absent == ~truthy(arg2)
        first == IF absent THEN 0 ELSE arg1
        last == IF absent THEN arg1 ELSE arg2.num
        array == ArrayOfLength(last - first)
    IN  IF ~absent /\ arg1 > arg2.num
        THEN [threw |-> TRUE, value |-> Str("Arg2 has to be higher or equal compared to Arg1")]
        ELSE IF array.threw THEN array
        ELSE [threw |-> FALSE,
              value |-> [v \in 1..Len(array.value) |-> Num((v - 1) + first)]]

CallRangeFailFast ==
    /\ pc = "idle"
    /\ \E arg1 \in Ints, arg2 \in {Undefined} \cup {Num(b) : b \in Ints} :
          /\ op' = "range_fail_fast"
          /\ args' = [arg1 |-> arg1, arg2 |-> arg2]
          /\ result' = range_fail_fast(arg1, arg2).value
          /\ pc' = IF range_fail_fast(arg1, arg2).threw THEN "thrown" ELSE "done"
    /\ UNCHANGED <<index, end_index, tested, invoked, store>>

CallRangeArithmetic ==
    /\ pc = "idle"
    /\ \E arg1 \in Ints, arg2 \in {Undefined} \cup {Num(b) : b \in Ints} :
          /\ op' = "range_arithmetic"
          /\ args' = [arg1 |-> arg1, arg2 |-> arg2]
          /\ result' = range_arithmetic(arg1, arg2)
    /\ Returned

\* -------------------------------------- cached, one step of the code at a time
\* A computation passed to cached returns value, throws value, or ("nested")
\* first calls cached(inner, inner_key) itself and then returns value.
StepKeys == {"key1", "key2"}
LeafComputations ==
    [kind : {"returns", "throws"}, value : {Num(1), Num(2)},
     inner_key : {""}, inner : {<<>>}]
NestedComputations ==
    [kind : {"nested"}, value : {Num(1), Num(2)},
     inner_key : StepKeys, inner : {<<f>> : f \in LeafComputations}]
Computations == LeafComputations \cup NestedComputations

top == stack[Len(stack)]
pop == SubSeq(stack, 1, Len(stack) - 1)

\* The calls below the innermost one, whose computation is told how the call
\* it was waiting for has ended.
resume(outcome) ==
    IF Len(pop) = 0 THEN pop
    ELSE [pop EXCEPT ![Len(pop)] = [@ EXCEPT !.state = outcome]]

cache_after_throw_storing(c, key) == Map_set(c, key, Undefined)

\* func() threw: cache.set is not reached.
cache_after_throw(c, key) == c

\* cached(func, key) is called and tests cache.has(key): on a hit it returns
\* cache.get(key), on a miss func starts to run.  caller is the stack of the
\* calls in progress, the caller's own call (if any) waiting for this one.
cached_call(func, key, caller) ==
    /\ computations[key] < MaxComputations
    /\ op' = "cached"
    /\ args' = [func |-> func, key |-> key]
    /\ IF Map_has(cache, key)
       THEN /\ result' = Map_get(cache, key)
            /\ pc' = "done"
            /\ stack' = IF Len(caller) = 0 THEN caller
                        ELSE [caller EXCEPT ![Len(caller)] = [@ EXCEPT !.state = "resumed"]]
            /\ UNCHANGED computations
       ELSE /\ result' = Undefined
            /\ pc' = "running"
            /\ stack' = Append(caller, [func |-> func, key |-> key, cache0 |-> cache,
                                        state |-> "running"])
            /\ computations' = [computations EXCEPT ![key] = @ + 1]
    /\ UNCHANGED <<cache, index, end_index, tested, invoked, set_members, target,
                   target0, last_value, heap, inputs, calls>>

\* The program calls cached while no computation is running.
CachedCall ==
    /\ stack = <<>>
    /\ \E func \in Computations, key \in StepKeys : cached_call(func, key, stack)

\* The computation that is running calls cached itself.
CachedNestedCall ==
    /\ stack # <<>>
    /\ top.state = "running"
    /\ top.func.kind = "nested"
    /\ cached_call(top.func.inner[1], top.func.inner_key,
                   [stack EXCEPT ![Len(stack)] = [@ EXCEPT !.state = "waiting"]])

\* const result = func() completes; cache.set(key, result); return result.
CachedComputed ==
    /\ stack # <<>>
    /\ \/ top.state = "running" /\ top.func.kind = "returns"
       \/ top.state = "resumed"
    /\ op' = "cached"
    /\ args' = [func |-> top.func, key |-> top.key]
    /\ cache' = Map_set(cache, top.key, top.func.value)
    /\ result' = top.func.value
    /\ pc' = "done"
    /\ stack' = resume("resumed")
    /\ UNCHANGED <<computations, index, end_index, tested, invoked, set_members, target,
                   target0, last_value, heap, inputs, calls>>

\* func() throws, or the call of cached it made has thrown and it does not
\* catch: the error leaves cached.
CachedThrown ==
    /\ stack # <<>>
    /\ \/ top.state = "running" /\ top.func.kind = "throws"
       \/ top.state = "throwing"
    /\ op' = "cached"
    /\ args' = [func |-> top.func, key |-> top.key]
    /\ cache' = cache_after_throw(cache, top.key)
    /\ result' = IF top.state = "throwing" THEN result ELSE top.func.value
    /\ pc' = "thrown"
    /\ stack' = resume("throwing")
    /\ UNCHANGED <<computations, index, end_index, tested, invoked, set_members, target,
                   target0, last_value, heap, inputs, calls>>

\* ------------------------------------------------------------------ divmod
\* Math.floor(value / divider) for integers and a non-zero divider: the
\* quotient rounded towards minus infinity.
floor_div(value, divider) ==
    IF divider > 0 THEN value \div divider ELSE (-value) \div (-divider)

\* [Math.floor(value / divider), value % divider]
divmod(value, divider) == <<Num(floor_div(value, divider)), Num(JsRem(value, divider))>>

CallDivmod ==
    /\ pc = "idle"
    /\ \E value \in Ints, divider \in Ints \ {0} :
          /\ op' = "divmod"
          /\ args' = [value |-> value, divider |-> divider]
          /\ result' = divmod(value, divider)
    /\ Returned

Next ==
    \/ CallRange
    \/ CallZip
    \/ CallPairs
    \/ CallCyclicPairs
    \/ CallCycle
    \/ CallAt
    \/ CallCover
    \/ CallMapKeys
    \/ CallMapNumberKeys
    \/ CallMapValues
    \/ CallMapEntries
    \/ CallMapNumberEntries
    \/ CallHasProperty
    \/ CallInitArray
    \/ CallDivmod
    \/ CallRangeArithmetic
    \/ CallRangeFailFast
    \/ CallFinalJoin
    \/ CallFold
    \/ CallApply
    \/ CallZipLongest
    \/ CallIndexBy
    \/ CallNullableobjToPartial
    \/ UnthrowCall
    \/ UnthrowInvoke
    \/ UnthrowCatch
    \/ FindFromCall
    \/ FindFromTest
    \/ FindFromExhausted

Spec == Init /\ [][Next]_vars

\* ------------------------------------------- sequences of stateful calls
\* The module is loaded: the memo is empty and nothing has been computed.
InitCache ==
    /\ op = "none"
    /\ args = <<>>
    /\ result = Undefined
    /\ pc = "idle"
    /\ index = 0
    /\ end_index = 0
    /\ tested = <<>>
    /\ invoked = 0
    /\ cache = <<>>
    /\ computations = [k \in CacheKeys |-> 0]
    /\ set_members = <<>>
    /\ target = EmptyObject
    /\ target0 = EmptyObject
    /\ last_value = <<>>
    /\ heap = <<>>
    /\ inputs = <<>>
    /\ calls = <<>>
    /\ stack = <<>>

NextCache == CallCached

SpecCache == InitCache /\ [][NextCache]_vars


\* A Set built by the caller, then any sequence of deletions.
InitSet ==
    /\ op = "none"
    /\ args = <<>>
    /\ result = Undefined
    /\ pc = "idle"
    /\ index = 0
    /\ end_index = 0
    /\ tested = <<>>
    /\ invoked = 0
    /\ cache = <<>>
    /\ computations = <<>>
    /\ set_members \in InitialSets
    /\ target = EmptyObject
    /\ target0 = EmptyObject
    /\ last_value = <<>>
    /\ heap = <<>>
    /\ inputs = <<>>
    /\ calls = <<>>
    /\ stack = <<>>

NextSet == CallEnsureDelete

SpecSet == InitSet /\ [][NextSet]_vars

\* An object built by the caller, then any sequence of updates of it.
InitAssign ==
    /\ op = "none"
    /\ args = <<>>
    /\ result = Undefined
    /\ pc = "idle"
    /\ index = 0
    /\ end_index = 0
    /\ tested = <<>>
    /\ invoked = 0
    /\ cache = <<>>
    /\ computations = <<>>
    /\ set_members = <<>>
    /\ target \in Objects
    /\ target0 = target
    /\ last_value = [k \in AssignKeys |-> <<>>]
    /\ heap = <<>>
    /\ inputs = <<>>
    /\ calls = <<>>
    /\ stack = <<>>

NextAssign == CallObjectAssignIfTruthy

SpecAssign == InitAssign /\ [][NextAssign]_vars

\* The caller has created its arrays; it then calls the sequence utilities on
\* them in any order.
InitArrays ==
    /\ op = "none"
    /\ args = <<>>
    /\ result = Undefined
    /\ pc = "idle"
    /\ index = 0
    /\ end_index = 0
    /\ tested = <<>>
    /\ invoked = 0
    /\ cache = <<>>
    /\ computations = <<>>
    /\ set_members = <<>>
    /\ target = EmptyObject
    /\ target0 = EmptyObject
    /\ last_value = <<>>
    /\ inputs \in CallerHeaps
    /\ heap = inputs
    /\ calls = <<>>
    /\ stack = <<>>

NextArrays ==
    \/ HeapZip
    \/ HeapPairs
    \/ HeapCyclicPairs
    \/ HeapCycle
    \/ HeapRange
    \/ HeapAt
    \/ HeapFindFrom

SpecArrays == InitArrays /\ [][NextArrays]_vars

\* The module is loaded; the program then calls cached with computations
\* that return, throw or call cached themselves.
InitCachedSteps ==
    /\ op = "none"
    /\ args = <<>>
    /\ result = Undefined
    /\ pc = "idle"
    /\ index = 0
    /\ end_index = 0
    /\ tested = <<>>
    /\ invoked = 0
    /\ cache = <<>>
    /\ computations = [k \in StepKeys |-> 0]
    /\ set_members = <<>>
    /\ target = EmptyObject
    /\ target0 = EmptyObject
    /\ last_value = <<>>
    /\ heap = <<>>
    /\ inputs = <<>>
    /\ calls = <<>>
    /\ stack = <<>>

NextCachedSteps ==
    \/ CachedCall
    \/ CachedNestedCall
    \/ CachedComputed
    \/ CachedThrown

SpecCachedSteps == InitCachedSteps /\ [][NextCachedSteps]_vars

\* ------------------------------------------------------------------ claims
MinOf(S) == CHOOSE m \in S : \A x \in S : m <= x

\* C1: zip(L) has the length of the shortest sequence of L (the empty
\* sequence for an empty L), tuple i holds the i-th elements of the inputs in
\* input order, and zip of one sequence wraps each element in a 1-tuple.
ZipShortestWins ==
    (op = "zip" /\ pc = "done") =>
        LET L == args.lsts
        IN  /\ Len(L) = 0 => result = <<>>
            /\ Len(L) > 0 =>
                  /\ Len(result) = MinOf({Len(L[j]) : j \in 1..Len(L)})
                  /\ \A i \in 1..Len(result) :
                        /\ Len(result[i]) = Len(L)
                        /\ \A j \in 1..Len(L) : result[i][j] = L[j][i]
            /\ (\E j \in 1..Len(L) : Len(L[j]) = 0) => result = <<>>
            /\ Len(L) = 1 => result = [i \in 1..Len(L[1]) |-> <<L[1][i]>>]

ZipRaggedWitness ==
    /\ op = "zip" /\ pc = "done"
    /\ Len(args.lsts) = 3
    /\ Len(args.lsts[1]) = 3 /\ Len(args.lsts[2]) = 2 /\ Len(args.lsts[3]) = 3
    /\ Len(result) = 2

\* C2: range(a, b) has length |b - a| and counts from a towards b in steps of
\* +1 (a < b) or -1 (a > b), excluding b; range(n) is range(0, n).
RangeContract ==
    (op = "range" /\ pc = "done") =>
        LET a == IF args.arg2.kind = "undefined" THEN 0 ELSE args.arg1
            b == IF args.arg2.kind = "undefined" THEN args.arg1 ELSE args.arg2.num
        IN  /\ Len(result) = Abs(b - a)
            /\ \A i \in 1..Len(result) :
                  result[i] = Num(IF a < b THEN a + (i - 1) ELSE a - (i - 1))
            /\ \A i \in 1..Len(result) : result[i].num # b

RangeDescendingWitness ==
    /\ op = "range" /\ pc = "done"
    /\ args.arg2.kind = "undefined"
    /\ args.arg1 = -3
    /\ result = <<Num(0), Num(-1), Num(-2)>>

\* C3 (as claimed): for a non-empty s of any kind of elements, cyclic_pairs(s)
\* has length(s) tuples, the first length(s)-1 are pairs(s) and the last is
\* (last of s, first of s); for the empty s it is empty.
CyclicPairsAnyElements ==
    (op = "cyclic_pairs" /\ pc = "done") =>
        LET s == args.lst
        IN  IF Len(s) = 0 THEN result = <<>>
            ELSE /\ Len(result) = Len(s)
                 /\ SubSeq(result, 1, Len(s) - 1) = pairs(s)
                 /\ result[Len(s)] = <<s[Len(s)], s[1]>>

\* C4: pairs(s) has length max(0, length(s) - 1), its i-th tuple is
\* (s[i], s[i+1]), and it is zip of s without its last element and s
\* without its first.
PairsContract ==
    (op = "pairs" /\ pc = "done") =>
        LET s == args.lst
        IN  /\ Len(result) = Max2(0, Len(s) - 1)
            /\ \A i \in 1..Len(result) : result[i] = <<s[i], s[i + 1]>>
            /\ result = zip(<<SubSeq(s, 1, Len(s) - 1), SubSeq(s, 2, Len(s))>>)
            /\ Len(s) <= 1 => result = <<>>

PairsWitness ==
    /\ op = "pairs" /\ pc = "done"
    /\ Len(args.lst) = 3
    /\ args.lst[1] # args.lst[2] /\ args.lst[2] # args.lst[3]
    /\ Len(result) = 2

\* C5: for a non-empty s, every integer n and every index i,
\* at(cycle(s, n, 'left'), i) = at(s, i + n).
CycleLeftAt ==
    (op = "cycle" /\ pc = "done" /\ args.direction = "left" /\ Len(args.arr) > 0) =>
        \A i \in Idxs : at(result, i) = at(args.arr, i + args.n)

CycleLeftNegativeWitness ==
    /\ op = "cycle" /\ pc = "done"
    /\ args.direction = "left"
    /\ Len(args.arr) = 3
    /\ args.n = -4
    /\ result # args.arr

\* C6 (as claimed): for a non-empty s and every integer n,
\* at(cycle(s, n, 'right'), i) = at(s, i - n) for every i, and rotating left
\* by n and then right by n gives s back.
CycleRightAt ==
    (op = "cycle" /\ pc = "done" /\ args.direction = "right" /\ Len(args.arr) > 0) =>
        /\ \A i \in Idxs : at(result, i) = at(args.arr, i - args.n)
        /\ cycle(cycle(args.arr, args.n, "left"), args.n, "right") = args.arr

\* C7: for a non-empty s, at(s, i) is the element at position i modulo
\* length(s) taken in [0, length(s)), so at(s, i) = at(s, i + length(s)) and
\* at(s, -1) is the last element; for the empty s it is undefined.
AtContract ==
    (op = "at" /\ pc = "done") =>
        LET s == args.arr
            i == args.index
        IN  IF Len(s) = 0 THEN result = Undefined
            ELSE /\ \E k \in 0..(Len(s) - 1) :
                       /\ \E q \in -(MaxIdx + 1)..(MaxIdx + 1) : i = q * Len(s) + k
                       /\ result = s[k + 1]
                 /\ result = at(s, i + Len(s))
                 /\ i = -1 => result = s[Len(s)]

AtNegativeWitness ==
    /\ op = "at" /\ pc = "done"
    /\ Len(args.arr) = 3
    /\ args.index = -5
    /\ args.arr[1] # args.arr[2]
    /\ result = args.arr[2]

\* The positions of s that a find_from call has tested, in order.
tested_positions == [k \in 1..Len(tested) |-> at_position(Len(args.arr), tested[k])]

\* C8 (as claimed): with cyclic = false and a non-empty s, find_from starts
\* at position start_index modulo length(s), tests the positions in
\* increasing order up to length(s)-1 only, and returns the first match
\* among those positions or undefined when none of them matches.
FindFromNonCyclic ==
    (op = "find_from" /\ pc = "done" /\ ~args.cyclic /\ Len(args.arr) > 0) =>
        LET s == args.arr
            first == at_position(Len(s), args.start_index)
            matches == {k \in first..(Len(s) - 1) : s[k + 1] \in args.predicate}
        IN  /\ \A k \in 1..Len(tested) : tested_positions[k] = first + k - 1
            /\ IF matches = {}
               THEN result = Undefined /\ Len(tested) = Len(s) - first
               ELSE result = s[MinOf(matches) + 1]
                    /\ Len(tested) = MinOf(matches) - first + 1

\* C9: with cyclic = true and a non-empty s, find_from tests the indices
\* start_index, start_index+1, ... in that order, no position twice, stops
\* at the first element that satisfies p and returns it, and returns
\* undefined exactly when no element of s satisfies p; for an empty s it
\* returns undefined without calling p.
FindFromCyclic ==
    (op = "find_from" /\ args.cyclic) =>
        LET s == args.arr
            hits == {k \in 1..Len(tested) : at(s, tested[k]) \in args.predicate}
        IN  /\ \A k \in 1..Len(tested) : tested[k] = args.start_index + k - 1
            /\ \A k, l \in 1..Len(tested) :
                  k # l => tested_positions[k] # tested_positions[l]
            /\ pc = "loop" => hits = {}
            /\ pc = "done" =>
                  /\ hits \subseteq {Len(tested)}
                  /\ hits # {} => result = at(s, tested[Len(tested)])
                  /\ hits = {} => result = Undefined /\ Len(tested) = Len(s)
                  /\ result = Undefined <=>
                        (\A k \in 1..Len(s) : s[k] \notin args.predicate)
                  /\ Len(s) = 0 => tested = <<>> /\ result = Undefined

FindFromCyclicWrapWitness ==
    /\ op = "find_from" /\ pc = "done"
    /\ args.cyclic
    /\ Len(args.arr) = 3
    /\ args.start_index = -5
    /\ tested = <<-5, -4, -3>>
    /\ result = args.arr[1]
    /\ result # Undefined

\* Two mappings with the same keys and the same value for every key.
same_entries(m1, m2) ==
    /\ own_keys(m1) = own_keys(m2)
    /\ \A k \in own_keys(m1) : m1.vals[k] = m2.vals[k]

\* C10 (as claimed): cover(template, {}) equals template entry for entry,
\* whatever the names of the template's keys.
CoverEmptyOverlay ==
    (op = "cover" /\ pc = "done" /\ Len(args.obj.keys) = 0) =>
        same_entries(result, args.template)


\* C11 (as claimed): cover(template, overlay) has exactly the template's keys;
\* the value of key k is overlay's value when overlay itself defines k (also
\* as undefined) and the template's value otherwise; keys that only overlay
\* has never appear.
CoverContract ==
    (op = "cover" /\ pc = "done") =>
        /\ own_keys(result) = own_keys(args.template)
        /\ \A k \in own_keys(args.template) :
              result.vals[k] = IF k \in own_keys(args.obj) THEN args.obj.vals[k]
                               ELSE args.template.vals[k]


\* C12: over any sequence of cached calls whose computations complete
\* normally, the computation runs only on the first call for a key, a later
\* call with that key returns the stored result (also a stored undefined)
\* whatever function it is given, and a stored entry is never removed or
\* replaced.
CachedComputesOnce ==
    [][op' = "cached" =>
        /\ Map_has(cache, args'.key) =>
              /\ result' = cache[args'.key]
              /\ computations' = computations
              /\ cache' = cache
        /\ ~Map_has(cache, args'.key) =>
              /\ result' = args'.func.returns
              /\ cache'[args'.key] = result'
              /\ computations'[args'.key] = computations[args'.key] + 1
        /\ \A k \in DOMAIN cache : Map_has(cache', k) /\ cache'[k] = cache[k]
        /\ \A k \in CacheKeys : computations'[k] <= 1
        /\ \A k \in CacheKeys : Map_has(cache', k) <=> computations'[k] = 1]_vars

CachedHitUndefinedWitness ==
    /\ op = "cached"
    /\ Map_has(cache, args.key)
    /\ cache[args.key] = Undefined
    /\ args.func.returns = Num(1)
    /\ result = Undefined
    /\ computations[args.key] = 1


\* The mapping res is built from the output keys and values, given in the
\* iteration order of the input: its keys are the output keys, a key holds
\* the value of the last entry sent to it, and no key is lost exactly when
\* the output keys are pairwise distinct.
LastWriteWins(res, keys, vals) ==
    /\ own_keys(res) = {keys[i] : i \in 1..Len(keys)}
    /\ \A i \in 1..Len(keys) :
          (\A j \in (i + 1)..Len(keys) : keys[j] # keys[i]) => res.vals[keys[i]] = vals[i]
    /\ Cardinality(own_keys(res)) = Len(keys) <=>
          (\A i, j \in 1..Len(keys) : i # j => keys[i] # keys[j])

\* C13: map_keys and map_entries and their numeric-key variants keep as many
\* keys as m exactly when f sends the entries of m to pairwise distinct keys,
\* and on a collision the key holds the value of the entry that comes last in
\* the iteration order of m; map_values keeps the key set of m and maps each
\* value v to f(v).
MapReshapeContract ==
    pc = "done" =>
        LET m == args.obj
            n == Len(m.keys)
        IN  /\ op = "map_keys" =>
                  LastWriteWins(result, [i \in 1..n |-> args.func[m.keys[i]]],
                                [i \in 1..n |-> m.vals[m.keys[i]]])
            /\ op = "map_entries" =>
                  LastWriteWins(result,
                                [i \in 1..n |-> args.func[<<m.keys[i], m.vals[m.keys[i]]>>][1]],
                                [i \in 1..n |-> args.func[<<m.keys[i], m.vals[m.keys[i]]>>][2]])
            /\ op = "map_number_keys" =>
                  LET out == [i \in 1..n |-> args.func[parseFloat(m.keys[i])]]
                  IN  /\ LastWriteWins(result, [i \in 1..n |-> NumKeyNames[out[i] + 1]],
                                       [i \in 1..n |-> m.vals[m.keys[i]]])
                      /\ Cardinality(own_keys(result)) = n <=>
                            (\A i, j \in 1..n : i # j => out[i] # out[j])
            /\ op = "map_number_entries" =>
                  LET out == [i \in 1..n |->
                                 args.func[<<parseFloat(m.keys[i]), m.vals[m.keys[i]]>>]]
                  IN  /\ LastWriteWins(result, [i \in 1..n |-> NumKeyNames[out[i][1] + 1]],
                                       [i \in 1..n |-> out[i][2]])
                      /\ Cardinality(own_keys(result)) = n <=>
                            (\A i, j \in 1..n : i # j => out[i][1] # out[j][1])
            /\ op = "map_values" =>
                  /\ own_keys(result) = own_keys(m)
                  /\ \A k \in own_keys(m) : result.vals[k] = args.func[m.vals[k]]

MapCollisionWitness ==
    /\ op = "map_number_entries" /\ pc = "done"
    /\ args.obj.keys = <<"0", "2">>
    /\ args.func[<<0, args.obj.vals["0"]>>] = <<1, Num(3)>>
    /\ args.func[<<2, args.obj.vals["2"]>>] = <<1, Undefined>>
    /\ result.keys = <<"1">>
    /\ result.vals["1"] = Undefined


\* The prototypes on the chain that starts at the prototype called name.
ProtoChain(name) ==
    LET first == IF name = "null" THEN {} ELSE {name}
        second == {Prototypes[p].proto : p \in first} \ {"null"}
        third == {Prototypes[p].proto : p \in second} \ {"null"}
    IN  first \cup second \cup third

\* C14: has_property is false for null and undefined; for every other obj it
\* is true exactly when the key is an own property of obj or of an object on
\* its prototype chain, also when the property holds undefined.
HasPropertyContract ==
    (op = "has_property" /\ pc = "done") =>
        LET key == IF args.prop.kind = "number" THEN NumKeyNames[args.prop.num + 1]
                   ELSE args.prop.str
        IN  IF args.obj.kind \in {"null", "undefined"} THEN result = Bool(FALSE)
            ELSE result = Bool(\/ key \in own_property_keys(args.obj)
                               \/ \E p \in ProtoChain(prototype_of(args.obj)) :
                                     key \in Prototypes[p].own)

HasPropertyUndefinedValueWitness ==
    /\ op = "has_property" /\ pc = "done"
    /\ args.obj = Obj("protoObj", <<Prop("u", Undefined)>>)
    /\ args.prop = Str("u")
    /\ result = Bool(TRUE)


\* C15: ensure_delete_from_set returns true exactly when it removed a member
\* and false exactly when the set is unchanged; on true the set has lost
\* exactly one member: value itself when it is a member by identity,
\* otherwise the first member in iteration order structurally equal to it.
EnsureDeleteRemovesOne ==
    [][op' = "ensure_delete_from_set" =>
        LET v == args'.value
            before == set_members
            after == set_members'
        IN  /\ result' \in {Bool(TRUE), Bool(FALSE)}
            /\ result' = Bool(FALSE) <=> after = before
            /\ result' = Bool(TRUE) =>
                  \E i \in 1..Len(before) :
                      /\ after = [j \in 1..(Len(before) - 1) |->
                                     IF j < i THEN before[j] ELSE before[j + 1]]
                      /\ IF \E j \in 1..Len(before) : SameValueZero(before[j], v)
                         THEN SameValueZero(before[i], v)
                         ELSE /\ isEqual(before[i], v)
                              /\ \A j \in 1..(i - 1) : ~isEqual(before[j], v)]_vars

EnsureDeleteStructuralWitness ==
    /\ op = "ensure_delete_from_set"
    /\ args.value = Reference(4, Point(1))
    /\ result = Bool(TRUE)
    /\ set_members = <<Primitive(Num(1)), Reference(2, Point(1))>>

AssignIfTruthyLastCall ==
    /\ \A k \in AssignKeys :
          IF Len(last_value[k]) = 0
          THEN /\ k \in own_keys(target) <=> k \in own_keys(target0)
               /\ k \in own_keys(target) => target.vals[k] = target0.vals[k]
          ELSE LET v == last_value[k][1]
               IN  IF v \in {Num(0), Str(""), Bool(FALSE), Null, Undefined}
                   THEN k \notin own_keys(target)
                   ELSE k \in own_keys(target) /\ target.vals[k] = v
    /\ \A k \in Keys \ AssignKeys :
          /\ k \in own_keys(target) <=> k \in own_keys(target0)
          /\ k \in own_keys(target) => target.vals[k] = target0.vals[k]
    /\ op = "object_assign_if_truthy" => Len(last_value[args.key]) = 1
                                         /\ last_value[args.key][1] = args.value

AssignIfTruthyWitness ==
    /\ op = "object_assign_if_truthy"
    /\ "x" \in own_keys(target0) /\ "n" \in own_keys(target0)
    /\ last_value["x"] = <<Num(0)>>
    /\ last_value["toString"] = <<Str("5")>>
    /\ target.keys = <<"n", "toString">>


\* x is a nesting of Len(dims) levels whose sequences at level j have length
\* dims[j] and whose leaf slots all hold v itself.
RECURSIVE NestedOf(_, _, _)
NestedOf(x, v, dims) ==
    IF Len(dims) = 0 THEN x = v
    ELSE /\ x.kind = "array"
         /\ Len(x.items) = dims[1]
         /\ \A i \in 1..Len(x.items) : NestedOf(x.items[i], v, Tail(dims))

\* C18: init_array(v, [d1..dk]) is a nesting of exactly k levels, every
\* sequence at level j has length dj, every leaf slot holds the very same v,
\* the empty dimension list gives v itself and a dimension 0 an empty
\* sequence at that level.
InitArrayShape ==
    (op = "init_array" /\ pc = "done") =>
        /\ NestedOf(result, args.initValue, args.dimensions)
        /\ Len(args.dimensions) = 0 => result = args.initValue
        /\ (Len(args.dimensions) > 0 /\ args.dimensions[1] = 0) => result = Arr(<<>>)

InitArrayZeroDimensionWitness ==
    /\ op = "init_array" /\ pc = "done"
    /\ args.initValue = ObjAt(1)
    /\ args.dimensions = <<2, 0, 2>>
    /\ result = Arr(<<Arr(<<>>), Arr(<<>>)>>)

InitArrayLeafWitness ==
    /\ op = "init_array" /\ pc = "done"
    /\ args.initValue = ObjAt(1)
    /\ args.dimensions = <<1, 2>>
    /\ result = Arr(<<Arr(<<ObjAt(1), ObjAt(1)>>)>>)


\* C19: unthrow(f) invokes f exactly once and returns what f returned, or
\* undefined when f threw; no error leaves unthrow.
UnthrowContract ==
    op = "unthrow" =>
        /\ invoked <= 1
        /\ pc # "thrown"
        /\ pc = "done" =>
              /\ invoked = 1
              /\ result = IF args.func.throws THEN Undefined ELSE args.func.value

UnthrowCaughtWitness ==
    /\ op = "unthrow" /\ pc = "done"
    /\ args.func = [throws |-> TRUE, value |-> Str("boom")]
    /\ invoked = 1
    /\ result = Undefined


IndexByContract ==
    (op = "index_by" /\ pc = "done") =>
        LET arr == args.arr
            field(i) == arr[i].vals[args.key].str
        IN  /\ own_keys(result) = {field(i) : i \in 1..Len(arr)}
            /\ Len(result.keys) = Cardinality({field(i) : i \in 1..Len(arr)})
            /\ \A k \in own_keys(result) :
                  \E i \in 1..Len(arr) :
                      /\ field(i) = k
                      /\ result.vals[k] = arr[i]
                      /\ \A j \in (i + 1)..Len(arr) : field(j) # k

IndexByDuplicateWitness ==
    /\ op = "index_by" /\ pc = "done"
    /\ Len(args.arr) = 3
    /\ args.arr[1].vals["id"] = Str("a") /\ args.arr[1].vals["name"] = Num(1)
    /\ args.arr[2].vals["id"] = Str("b")
    /\ args.arr[3].vals["id"] = Str("a") /\ args.arr[3].vals["name"] = Num(2)
    /\ result.keys = <<"a", "b">>
    /\ result.vals["a"] = args.arr[3]


\* The greatest member of a non-empty set of integers.
MaxOf(S) == CHOOSE m \in S : \A x \in S : x <= m

\* C22: the longest-wins zip returns as many tuples as the longest input has
\* elements; tuple i holds the i-th element of each input in input order and
\* undefined for an input that has no i-th element; no inputs give an empty
\* result.
ZipLongestWins ==
    (op = "zip_longest" /\ pc = "done") =>
        LET lsts == args.lsts
        IN  IF Len(lsts) = 0 THEN result = <<>>
            ELSE /\ Len(result) = MaxOf({Len(lsts[j]) : j \in 1..Len(lsts)})
                 /\ \A i \in 1..Len(result) :
                       /\ Len(result[i]) = Len(lsts)
                       /\ \A j \in 1..Len(lsts) :
                             result[i][j] = IF i <= Len(lsts[j]) THEN lsts[j][i]
                                            ELSE Undefined

ZipLongestRaggedWitness ==
    /\ op = "zip_longest" /\ pc = "done"
    /\ Len(args.lsts) = 2
    /\ Len(args.lsts[1]) = 2 /\ Len(args.lsts[2]) = 3
    /\ Len(result) = 3
    /\ result[3][1] = Undefined
    /\ result[3][2] = args.lsts[2][3]


\* C23: the sequence utilities never modify an array passed to them: after
\* any series of calls every array of the caller holds the elements it was
\* created with, in their order; and what zip, pairs, cyclic_pairs and cycle
\* return is an array that is none of the caller's arrays, also when cycle
\* rotates by 0 or by a multiple of the length.
SequencesNotMutated ==
    /\ \A a \in 1..Len(inputs) : heap[a] = inputs[a]
    /\ op \in {"zip", "pairs", "cyclic_pairs", "cycle"} =>
          /\ result.kind = "ref"
          /\ result.num \notin 1..Len(inputs)
          /\ result.num \in 1..Len(heap)

CycleWholeTurnWitness ==
    /\ op = "cycle"
    /\ Len(heap[args.arr]) = 2
    /\ args.n = 2
    /\ result.kind = "ref"
    /\ heap[result.num] = heap[args.arr]
    /\ result.num # args.arr


\* f(...f(f(v, xs[1]), xs[2])..., xs[n]) for the first n elements of xs, f
\* being the reducer func.
RECURSIVE Reduced(_, _, _, _)
Reduced(v, xs, func, n) ==
    IF n = 0 THEN v ELSE reduce(func, Reduced(v, xs, func, n - 1), xs[n])

\* The same for a list of (argument, function) pairs.
RECURSIVE Threaded(_, _, _)
Threaded(v, steps, n) ==
    IF n = 0 THEN v ELSE reduce(steps[n][2], Threaded(v, steps, n - 1), steps[n][1])

\* C24: fold(v, xs, f) is f(...f(f(v, xs[0]), xs[1])..., xs[n-1]), calls f
\* once per element in sequence order on the running value and the element,
\* and returns v for an empty xs; apply(v, steps) threads v in the same way
\* through the (argument, function) pairs, calling each pair's function once,
\* in list order, on the running value and the pair's argument.
FoldApplyContract ==
    /\ (op = "fold" /\ pc = "done") =>
          LET xs == args.values
          IN  /\ result = Num(Reduced(args.value, xs, args.func, Len(xs)))
              /\ Len(calls) = Len(xs)
              /\ \A i \in 1..Len(xs) :
                    calls[i] = <<Reduced(args.value, xs, args.func, i - 1), xs[i]>>
              /\ Len(xs) = 0 => result = Num(args.value)
    /\ (op = "apply" /\ pc = "done") =>
          LET steps == args.values
          IN  /\ result = Num(Threaded(args.value, steps, Len(steps)))
              /\ Len(calls) = Len(steps)
              /\ \A i \in 1..Len(steps) :
                    calls[i] = <<Threaded(args.value, steps, i - 1), steps[i][1]>>

FoldOrderWitness ==
    /\ op = "fold" /\ pc = "done"
    /\ args.value = 2
    /\ args.values = <<1, 2, 3>>
    /\ args.func = "digits"
    /\ result = Num(2123)
    /\ calls = <<<<2, 1>>, <<21, 2>>, <<212, 3>>>>


\* The first n elements of lst, each followed by what separates it from the
\* next element of lst: sep, last_sep after the last but one, nothing after
\* the last.
RECURSIVE Separated(_, _, _, _)
Separated(lst, sep, last_sep, n) ==
    IF n = 0 THEN ""
    ELSE Separated(lst, sep, last_sep, n - 1) \o lst[n] \o
         (IF n = Len(lst) THEN "" ELSE IF n = Len(lst) - 1 THEN last_sep ELSE sep)

\* C25: final_join(list, sep, last_sep) is the empty text for no element, the
\* element for one, and otherwise the elements in order with sep between
\* adjacent elements except the last two, which last_sep separates: n - 2
\* separators sep and one last_sep.
FinalJoinContract ==
    (op = "final_join" /\ pc = "done") =>
        LET lst == args.lst
            n == Len(lst)
        IN  /\ n = 0 => result = Str("")
            /\ n = 1 => result = Str(lst[1])
            /\ result = Str(Separated(lst, args.default_seperator, args.final_seperator, n))
            /\ n >= 2 =>
                  Len(result.str) = Len(join(lst, "")) + (n - 2) * Len(args.default_seperator)
                                    + Len(args.final_seperator)

FinalJoinThreeWitness ==
    /\ op = "final_join" /\ pc = "done"
    /\ args.lst = <<"a", "b", "a">>
    /\ args.default_seperator = ", "
    /\ args.final_seperator = " and "
    /\ result = Str("a, b and a")


\* C26 (as claimed): in the range that rejects descending ranges, for all
\* integers a and b, range(a, b) throws when a > b and returns a, a+1, ...,
\* b-1 without throwing when a <= b.
RangeFailFastContract ==
    (op = "range_fail_fast" /\ args.arg2.kind = "number") =>
        LET a == args.arg1
            b == args.arg2.num
        IN  IF a > b THEN pc = "thrown"
            ELSE /\ pc = "done"
                 /\ result = [i \in 1..(b - a) |-> Num(a + i - 1)]


\* C27 (as claimed): for every integer first argument and every integer or
\* absent second argument the arithmetic range returns the sequence that the
\* loop-based range returns.
RangeArithmeticEqualsLoop ==
    (op = "range_arithmetic" /\ pc = "done") => result = range(args.arg1, args.arg2)


CachedOneValuePerKey ==
    [][/\ \A k \in DOMAIN cache : Map_has(cache', k) /\ cache'[k] = cache[k]
       /\ (pc' = "done" /\ Map_has(cache, args'.key)) => result' = cache[args'.key]]_vars


\* C30 (as claimed): for all integers value and all non-zero integers
\* divider, of either sign, divmod(value, divider) is a pair [q, r] with
\* q * divider + r = value.
DivmodReconstructs ==
    (op = "divmod" /\ pc = "done") =>
        result[1].num * args.divider + result[2].num = args.value

====
